---- MODULE Spec2Model ----
(***************************************************************************)
(* Model of ansys/tools/example_coverage/example_coverage.py:              *)
(*   find_files     - the source finder                                    *)
(*   create_report  - classification of a module's declarations and the    *)
(*                    report (header, one row per module, Total row).      *)
(* Python strings are sequences of one-character strings, so that          *)
(* startswith, endswith, "in", Path.suffix and the ordering used by        *)
(* sorted() are computed, character by character, as Python computes them. *)
(***************************************************************************)
EXTENDS Integers, Sequences, FiniteSets, TLC

VARIABLES
    fs,                           \* entries below directory_path, in listing order
    find_result,                  \* recursive flag -> outcome of find_files
    tree,                         \* the module handed to the classification
    classified,                   \* outcome of the classification of tree
    recursive,                    \* create_report's recursive argument
    pc,                           \* position of the create_report run
    stdout,                       \* lines printed so far
    modules,                      \* the list find_files returned to create_report
    idx,                          \* index in modules of the file being processed
    reads,                        \* files opened so far, in order
    cur_tree,                     \* tree of the file being processed
    all_methods_with_example,     \* dict: file name -> covered names
    all_methods_without_example,  \* dict: file name -> missing names
    error                         \* the exception that ended the run, or "none"

find_vars == <<fs, find_result>>
classify_vars == <<tree, classified>>
run_vars == <<recursive, pc, stdout, modules, idx, reads, cur_tree,
              all_methods_with_example, all_methods_without_example, error>>
vars == <<fs, find_result, tree, classified, recursive, pc, stdout,
          modules, idx, reads, cur_tree, all_methods_with_example,
          all_methods_without_example, error>>

----------------------------------------------------------------------------
(* Bounds of the model *)

MaxEntries == 3      \* entries in the scanned directory tree
MaxNodes == 2        \* statements in a module, class members included
MaxDecorators == 2   \* decorators on one method

----------------------------------------------------------------------------
(* Python strings *)

\* code points of the characters the model uses (str comparison is by code point)
Ord(c) ==
    CASE c = "." -> 46 [] c = "/" -> 47 [] c = "B" -> 66 [] c = "E" -> 69
      [] c = "_" -> 95 [] c = "a" -> 97 [] c = "b" -> 98 [] c = "c" -> 99
      [] c = "d" -> 100 [] c = "e" -> 101 [] c = "g" -> 103 [] c = "i" -> 105
      [] c = "k" -> 107 [] c = "l" -> 108 [] c = "m" -> 109 [] c = "n" -> 110
      [] c = "p" -> 112 [] c = "s" -> 115 [] c = "t" -> 116 [] c = "u" -> 117
      [] c = "x" -> 120 [] c = "y" -> 121

\* a < b for str
StrLess(a, b) ==
    \E i \in 1..(Len(a) + 1) :
        /\ i <= Len(b)
        /\ \A j \in 1..(i - 1) : a[j] = b[j]
        /\ \/ i = Len(a) + 1
           \/ Ord(a[i]) < Ord(b[i])

startswith(s, prefix) ==
    /\ Len(s) >= Len(prefix)
    /\ SubSeq(s, 1, Len(prefix)) = prefix

endswith(s, tail) ==
    /\ Len(s) >= Len(tail)
    /\ SubSeq(s, Len(s) - Len(tail) + 1, Len(s)) = tail

\* sub in s
str_in(sub, s) ==
    \E i \in 1..(Len(s) - Len(sub) + 1) : SubSeq(s, i, i + Len(sub) - 1) = sub

\* pathlib.PurePath.suffix of a file name: from the last dot, unless the dot
\* is the first or the last character of the name
suffix(name) ==
    LET dots == {i \in 1..Len(name) : name[i] = "."}
        last == CHOOSE i \in dots : \A j \in dots : j <= i
    IN  IF dots # {} /\ 1 < last /\ last < Len(name)
        THEN SubSeq(name, last, Len(name))
        ELSE <<>>

RECURSIVE insert_sorted(_, _)
insert_sorted(x, s) ==
    IF s = <<>> THEN <<x>>
    ELSE IF StrLess(Head(s), x) THEN <<Head(s)>> \o insert_sorted(x, Tail(s))
    ELSE <<x>> \o s

RECURSIVE sorted(_)
sorted(s) == IF s = <<>> THEN <<>> ELSE insert_sorted(Head(s), sorted(Tail(s)))

----------------------------------------------------------------------------
(* The scanned directory *)

directory_path == <<"p", "k", "g">>
sep == <<"/">>
dot_py == <<".", "p", "y">>
init_py == <<"_", "_", "i", "n", "i", "t", "_", "_", ".", "p", "y">>
sub_dir == <<"s", "u", "b">>

\* An entry is a file or a directory; parent is <<>> for an entry directly
\* inside directory_path, or the name of the subdirectory holding it.
Entry(parent, name, is_file) ==
    [parent |-> parent, name |-> name, is_file |-> is_file]

EntryUniverse ==
    { Entry(<<>>, <<"a">> \o dot_py, TRUE),
      Entry(<<>>, <<"B">> \o dot_py, TRUE),
      Entry(<<>>, init_py, TRUE),
      Entry(<<>>, <<"m", "y">> \o init_py, TRUE),
      Entry(<<>>, <<"c", ".", "t", "x", "t">>, TRUE),
      Entry(<<>>, dot_py, TRUE),
      Entry(<<>>, sub_dir, FALSE),
      Entry(<<>>, <<"d">> \o dot_py, FALSE),
      Entry(sub_dir, <<"a">> \o dot_py, TRUE),
      Entry(sub_dir, init_py, TRUE) }

\* listings of at most MaxEntries distinct entries in which every entry of a
\* subdirectory comes with that subdirectory
Directories ==
    { d \in UNION { [1..n -> EntryUniverse] : n \in 0..MaxEntries } :
        /\ \A i, j \in 1..Len(d) : i # j => d[i] # d[j]
        /\ \A i \in 1..Len(d) :
              d[i].parent # <<>> =>
                  \E j \in 1..Len(d) : d[j] = Entry(<<>>, d[i].parent, FALSE) }

\* os.path.join(directory_path, ...) / str(path) of an entry
path_of(e) ==
    IF e.parent = <<>> THEN directory_path \o sep \o e.name
    ELSE directory_path \o sep \o e.parent \o sep \o e.name

\* os.listdir(directory_path): the entries directly inside the directory
listdir(d) == SelectSeq(d, LAMBDA e : e.parent = <<>>)

\* pathlib.Path(directory_path).rglob('*.py'): every entry, at any depth,
\* files and directories alike, whose name matches *.py
rglob_py(d) == SelectSeq(d, LAMBDA e : endswith(e.name, dot_py))

\* the name test of the recursive branch, on str(path)
keep_recursive(e) == ~ endswith(path_of(e), init_py)

\* the three tests of the non-recursive branch
keep_flat(e) ==
    /\ e.is_file
    /\ suffix(e.name) = dot_py
    /\ ~ endswith(e.name, init_py)

paths(s) == [i \in 1..Len(s) |-> path_of(s[i])]

Returned(list) == [raised |-> FALSE, error |-> "none", value |-> list]
Raised(err) == [raised |-> TRUE, error |-> err, value |-> <<>>]

find_files(d, rec) ==
    IF listdir(d) = <<>> THEN Raised("FileNotFoundError")
    ELSE LET found == IF rec THEN paths(SelectSeq(rglob_py(d), keep_recursive))
                      ELSE paths(SelectSeq(listdir(d), keep_flat))
         IN  IF found = <<>> THEN Raised("FileNotFoundError")
             ELSE Returned(sorted(found))

----------------------------------------------------------------------------
(* Syntax trees *)

Example == <<"E", "x", "a", "m", "p", "l", "e">>

\* what ast.get_docstring gives: None, or the text
NoDoc == [present |-> FALSE, text |-> <<>>]
DocText(t) == [present |-> TRUE, text |-> t]

Docs ==
    { NoDoc,
      DocText(<<"a", "n", " ", "e", "x", "a", "m", "p", "l", "e">>),
      DocText(<<"E", "x", "a", "m", "p", "l", "e", "s", ":">>) }

Names == { <<"x">>, <<"_", "x">> }

\* decorator expressions: @property, @x.setter, @staticmethod
NameDecorator(id) == [node |-> "Name", ident |-> id]
AttributeDecorator(attr) == [node |-> "Attribute", ident |-> attr]
Decorators ==
    { NameDecorator("property"), AttributeDecorator("setter"),
      NameDecorator("staticmethod") }

DecoratorLists == UNION { [1..n -> Decorators] : n \in 0..MaxDecorators }
TopLevelDecoratorLists == { <<>>, <<NameDecorator("staticmethod")>> }

Node(type, name, doc, decorators, body) ==
    [type |-> type, name |-> name, docstring |-> doc,
     decorator_list |-> decorators, body |-> body]

\* a statement that is neither a FunctionDef nor a ClassDef (an assignment,
\* an import, ...)
OtherNode == Node("Other", <<>>, NoDoc, <<>>, <<>>)

Methods ==
    { Node("FunctionDef", n, d, ds, <<>>) :
        n \in Names, d \in Docs, ds \in DecoratorLists }

TopLevelFunctions ==
    { Node("FunctionDef", n, d, ds, <<>>) :
        n \in Names, d \in Docs, ds \in TopLevelDecoratorLists }

\* class bodies of exactly n statements
ClassBodies(n) == [1..n -> Methods \cup {OtherNode}]

\* the top-level statements that make n statements, members included: a
\* function, another statement or a class of n - 1 members
TopLevelNodes(n) ==
    { Node("ClassDef", name, d, <<>>, b) :
        name \in Names, d \in Docs, b \in ClassBodies(n - 1) }
    \cup (IF n = 1 THEN TopLevelFunctions \cup {OtherNode} ELSE {})

\* tree.body of the modules of at most n statements: no statement, or a
\* first statement that makes k of them followed by at most n - k
RECURSIVE Bodies(_)
BodiesFrom(k, n) ==
    { <<node>> \o rest : node \in TopLevelNodes(k), rest \in Bodies(n - k) }
Bodies(n) == {<<>>} \cup UNION { BodiesFrom(k, n) : k \in 1..n }

----------------------------------------------------------------------------
(* Classification: create_report, lines 49 to 122 *)

Entries(missing, covered) == [missing |-> missing, covered |-> covered]

\* classify_function with the else of the docstring test lost: the name is
\* appended to covered_functions whatever the test said
classify_function_no_else(function) ==
    IF startswith(function.name, <<"_">>) THEN Entries(<<>>, <<>>)
    ELSE IF \/ ~ function.docstring.present
            \/ ~ str_in(Example, function.docstring.text)
         THEN Entries(<<function.name>>, <<function.name>>)
         ELSE Entries(<<>>, <<function.name>>)

\* one iteration of the loop over function_definitions
classify_function(function) ==
    IF startswith(function.name, <<"_">>) THEN Entries(<<>>, <<>>)
    ELSE IF \/ ~ function.docstring.present
            \/ ~ str_in(Example, function.docstring.text)
         THEN Entries(<<function.name>>, <<>>)
         ELSE Entries(<<>>, <<function.name>>)

\* the docstring test of one iteration of the loop over class_definitions
classify_class(class_def) ==
    IF \/ ~ class_def.docstring.present
       \/ ~ str_in(Example, class_def.docstring.text)
    THEN Entries(<<class_def.name>>, <<>>)
    ELSE Entries(<<>>, <<class_def.name>>)

\* the loop over method.decorator_list: acc holds missing_methods and
\* covered_methods entries appended so far and the flag prop
RECURSIVE decorator_loop(_, _, _)
decorator_loop(method, decorators, acc) ==
    IF decorators = <<>> THEN acc
    ELSE LET decorator == Head(decorators)
             next ==
                IF decorator.node = "Name" /\ decorator.ident = "property"
                THEN IF ~ method.docstring.present
                     THEN [missing |-> Append(acc.missing, method.name),
                           covered |-> acc.covered, prop |-> TRUE]
                     ELSE IF ~ str_in(Example, method.docstring.text)
                     THEN [missing |-> Append(acc.missing, method.name),
                           covered |-> acc.covered, prop |-> TRUE]
                     ELSE [missing |-> acc.missing,
                           covered |-> Append(acc.covered, method.name),
                           prop |-> TRUE]
                ELSE IF decorator.node = "Attribute" /\ decorator.ident = "setter"
                THEN [missing |-> acc.missing,
                      covered |-> Append(acc.covered, method.name),
                      prop |-> TRUE]
                ELSE acc
         IN  decorator_loop(method, Tail(decorators), next)

\* classify_method with the test of the private name lost
classify_method_no_private_test(method) ==
    LET seen == decorator_loop(method, method.decorator_list,
                               [missing |-> <<>>, covered |-> <<>>, prop |-> FALSE])
    IN  IF seen.prop THEN Entries(seen.missing, seen.covered)
        ELSE IF \/ ~ method.docstring.present
                \/ ~ str_in(Example, method.docstring.text)
             THEN Entries(<<method.name>>, <<>>)
             ELSE Entries(<<>>, <<method.name>>)

\* one iteration of the loop over method_definitions
classify_method(method) ==
    LET seen == decorator_loop(method, method.decorator_list,
                               [missing |-> <<>>, covered |-> <<>>, prop |-> FALSE])
    IN  IF seen.prop THEN Entries(seen.missing, seen.covered)
        ELSE IF startswith(method.name, <<"_">>) THEN Entries(<<>>, <<>>)
        ELSE IF \/ ~ method.docstring.present
                \/ ~ str_in(Example, method.docstring.text)
             THEN Entries(<<method.name>>, <<>>)
             ELSE Entries(<<>>, <<method.name>>)

function_definitions(body) == SelectSeq(body, LAMBDA node : node.type = "FunctionDef")
class_definitions(body) == SelectSeq(body, LAMBDA node : node.type = "ClassDef")

\* method_definitions: the FunctionDef members of every class, in order
RECURSIVE method_definitions(_)
method_definitions(classes) ==
    IF classes = <<>> THEN <<>>
    ELSE function_definitions(Head(classes).body) \o method_definitions(Tail(classes))

\* the loop body that handles a declaration of the given kind
loop_body(kind, decl) ==
    CASE kind = "function" -> classify_function(decl)
      [] kind = "class" -> classify_class(decl)
      [] kind = "method" -> classify_method(decl)

\* what each declaration of decls appended, in order (a record of the loops'
\* work, one element per iteration)
RECURSIVE iterations(_, _)
iterations(kind, decls) ==
    IF decls = <<>> THEN <<>>
    ELSE <<[kind |-> kind, decl |-> Head(decls),
            missing |-> loop_body(kind, Head(decls)).missing,
            covered |-> loop_body(kind, Head(decls)).covered]>>
         \o iterations(kind, Tail(decls))

RECURSIVE concat(_, _)
concat(log, field) ==
    IF log = <<>> THEN <<>>
    ELSE (IF field = "missing" THEN Head(log).missing ELSE Head(log).covered)
         \o concat(Tail(log), field)

\* the classification of one parsed module
classify(body) ==
    LET functions == iterations("function", function_definitions(body))
        classes == iterations("class", class_definitions(body))
        methods == iterations("method", method_definitions(class_definitions(body)))
    IN  [missing_methods |-> concat(methods, "missing"),
         covered_methods |-> concat(methods, "covered"),
         without_example |-> concat(functions, "missing") \o concat(classes, "missing")
                             \o concat(methods, "missing"),
         with_example |-> concat(functions, "covered") \o concat(classes, "covered")
                          \o concat(methods, "covered"),
         log |-> functions \o classes \o methods]

NotClassified ==
    [missing_methods |-> <<>>, covered_methods |-> <<>>, without_example |-> <<>>,
     with_example |-> <<>>, log |-> <<>>]

----------------------------------------------------------------------------
(* The report: create_report, lines 35-36 and 119 to 159 *)

\* exact fractions, for covered/total*100
RECURSIVE gcd(_, _)
gcd(a, b) == IF b = 0 THEN a ELSE gcd(b, a % b)

Fraction(n, d) == [num |-> n \div gcd(n, d), den |-> d \div gcd(n, d)]
Times(f, k) == Fraction(f.num * k, f.den)

percentage_covered(covered, total) ==
    IF total # 0 THEN Times(Fraction(covered, total), 100)
    ELSE Fraction(100, 1)

Line(kind, name, total, missing, percentage) ==
    [line |-> kind, name |-> name, total |-> total, missing |-> missing,
     percentage |-> percentage]

\* header_lines with the print of the rule lost
header_lines_no_rule == << Line("header", <<>>, 0, 0, Fraction(0, 1)) >>

\* the two prints that open the report
header_lines ==
    << Line("header", <<>>, 0, 0, Fraction(0, 1)),
       Line("rule", <<>>, 0, 0, Fraction(0, 1)) >>

replace_sep(s) == [i \in 1..Len(s) |-> IF s[i] = "/" THEN "." ELSE s[i]]

\* pathlib.PurePath.stem of a name without separators
stem(name) == SubSeq(name, 1, Len(name) - Len(suffix(name)))

\* the displayed module name; every file_name starts with directory_path and
\* holds it once, so split(directory_path)[1] is what follows it
module_name(file_name) ==
    LET rest == SubSeq(file_name, Len(directory_path) + 1, Len(file_name))
        name == directory_path \o stem(replace_sep(rest))
    IN  SubSeq(name, 1, IF Len(name) < 42 THEN Len(name) ELSE 42)

\* dict[key] = value
dict_set(dict, key, value) ==
    [k \in DOMAIN dict \cup {key} |-> IF k = key THEN value ELSE dict[k]]

\* the list extended with every value of the dict; the keys were inserted in
\* ascending order, which is the order the values are taken in
RECURSIVE extend_all(_, _)
extend_all(dict, keys) ==
    IF keys = {} THEN <<>>
    ELSE LET first == CHOOSE k \in keys : \A o \in keys \ {k} : StrLess(k, o)
         IN  dict[first] \o extend_all(dict, keys \ {first})

\* the row printed for one module
module_row(file_name, with_example, without_example) ==
    LET missing == Len(without_example)
        total == missing + Len(with_example)
        covered == total - missing
    IN  Line("row", module_name(file_name), total, missing,
             percentage_covered(covered, total))

\* total_row with package_total taken from the covered names alone
total_row_covered_only(with_dict, without_dict) ==
    LET with_list == extend_all(with_dict, DOMAIN with_dict)
        without_list == extend_all(without_dict, DOMAIN without_dict)
        package_total == Len(with_list)
        package_missing == Len(without_list)
    IN  Line("total", <<"T", "o", "t", "a", "l">>, package_total, package_missing,
             percentage_covered(package_total - package_missing, package_total))

\* the Total row
total_row(with_dict, without_dict) ==
    LET with_list == extend_all(with_dict, DOMAIN with_dict)
        without_list == extend_all(without_dict, DOMAIN without_dict)
        package_total == Len(with_list) + Len(without_list)
        package_missing == Len(without_list)
    IN  Line("total", <<"T", "o", "t", "a", "l">>, package_total, package_missing,
             percentage_covered(package_total - package_missing, package_total))

\* what open() and ast.parse make of a file: a syntax error, or a tree
SyntaxError == [parses |-> FALSE, body |-> <<>>]
Parsed(body) == [parses |-> TRUE, body |-> body]

documented == DocText(Example)
SampleBodies ==
    { <<>>,
      << Node("FunctionDef", <<"x">>, documented, <<>>, <<>>),
         Node("FunctionDef", <<"_", "x">>, NoDoc, <<>>, <<>>) >>,
      << Node("ClassDef", <<"x">>, documented, <<>>,
              << Node("FunctionDef", <<"x">>, NoDoc,
                      <<NameDecorator("property")>>, <<>>),
                 Node("FunctionDef", <<"x">>, NoDoc,
                      <<AttributeDecorator("setter")>>, <<>>) >>) >> }

Sources == {SyntaxError} \cup { Parsed(b) : b \in SampleBodies }

\* the entry a path of the list names
entry_of(path) == CHOOSE e \in {fs[i] : i \in 1..Len(fs)} : path_of(e) = path

----------------------------------------------------------------------------
(* Specification of find_files alone *)

NotCalled == [raised |-> FALSE, error |-> "not called", value |-> <<>>]
NoTree == Parsed(<<>>)
Unclassified == [done |-> FALSE, result |-> NotClassified]

IdleRun ==
    /\ recursive = TRUE
    /\ pc = "idle"
    /\ stdout = <<>>
    /\ modules = <<>>
    /\ idx = 0
    /\ reads = <<>>
    /\ cur_tree = NoTree
    /\ all_methods_with_example = <<>>
    /\ all_methods_without_example = <<>>
    /\ error = "none"

InitFind ==
    /\ fs \in Directories
    /\ find_result = [rec \in BOOLEAN |-> NotCalled]
    /\ tree = <<>>
    /\ classified = Unclassified
    /\ IdleRun

FindRecursive ==
    /\ find_result' = [find_result EXCEPT ![TRUE] = find_files(fs, TRUE)]
    /\ UNCHANGED <<fs, classify_vars, run_vars>>

FindFlat ==
    /\ find_result' = [find_result EXCEPT ![FALSE] = find_files(fs, FALSE)]
    /\ UNCHANGED <<fs, classify_vars, run_vars>>

NextFind == FindRecursive \/ FindFlat

SpecFind == InitFind /\ [][NextFind]_vars

----------------------------------------------------------------------------
(* Specification of the classification of one module *)

InitClassify ==
    /\ fs = <<>>
    /\ find_result = [rec \in BOOLEAN |-> NotCalled]
    /\ \/ tree = <<>>
       \/ \E k \in 1..MaxNodes : tree \in BodiesFrom(k, MaxNodes)
    /\ classified = Unclassified
    /\ IdleRun

Classify ==
    /\ ~ classified.done
    /\ classified' = [done |-> TRUE, result |-> classify(tree)]
    /\ UNCHANGED <<tree, find_vars, run_vars>>

NextClassify == Classify

SpecClassify == InitClassify /\ [][NextClassify]_vars

----------------------------------------------------------------------------
(* Specification of a run of create_report *)

Init ==
    /\ fs \in Directories
    /\ find_result = [rec \in BOOLEAN |-> NotCalled]
    /\ tree = <<>>
    /\ classified = Unclassified
    /\ recursive \in BOOLEAN
    /\ pc = "start"
    /\ stdout = <<>>
    /\ modules = <<>>
    /\ idx = 0
    /\ reads = <<>>
    /\ cur_tree = NoTree
    /\ all_methods_with_example = <<>>
    /\ all_methods_without_example = <<>>
    /\ error = "none"

fixed == <<fs, find_result, tree, classified, recursive>>

\* lines 35-36
PrintHeader ==
    /\ pc = "start"
    /\ stdout' = stdout \o header_lines
    /\ pc' = "find"
    /\ UNCHANGED <<fixed, modules, idx, reads, cur_tree, all_methods_with_example,
                   all_methods_without_example, error>>

\* line 44: find_files returns the list the loop runs over
FindFilesReturns ==
    /\ pc = "find"
    /\ ~ find_files(fs, recursive).raised
    /\ modules' = find_files(fs, recursive).value
    /\ idx' = 1
    /\ pc' = "loop"
    /\ UNCHANGED <<fixed, stdout, reads, cur_tree, all_methods_with_example,
                   all_methods_without_example, error>>

\* line 44: find_files raises, which ends the run
FindFilesRaises ==
    /\ pc = "find"
    /\ find_files(fs, recursive).raised
    /\ error' = find_files(fs, recursive).error
    /\ pc' = "failed"
    /\ UNCHANGED <<fixed, stdout, modules, idx, reads, cur_tree,
                   all_methods_with_example, all_methods_without_example>>

\* lines 45-47 on a path that is a directory: open() raises
OpenFails ==
    /\ pc = "loop"
    /\ idx <= Len(modules)
    /\ ~ entry_of(modules[idx]).is_file
    /\ reads' = Append(reads, modules[idx])
    /\ error' = "IsADirectoryError"
    /\ pc' = "failed"
    /\ UNCHANGED <<fixed, stdout, modules, idx, cur_tree, all_methods_with_example,
                   all_methods_without_example>>

\* ParseFails with the error swallowed: the module is skipped and the loop
\* goes on
ParseFailsSkips ==
    /\ pc = "loop"
    /\ idx <= Len(modules)
    /\ entry_of(modules[idx]).is_file
    /\ \E source \in Sources : ~ source.parses
    /\ reads' = Append(reads, modules[idx])
    /\ idx' = idx + 1
    /\ UNCHANGED <<fixed, pc, stdout, modules, cur_tree, all_methods_with_example,
                   all_methods_without_example, error>>

\* lines 45-47: the file is read and ast.parse raises
ParseFails ==
    /\ pc = "loop"
    /\ idx <= Len(modules)
    /\ entry_of(modules[idx]).is_file
    /\ \E source \in Sources : ~ source.parses
    /\ reads' = Append(reads, modules[idx])
    /\ error' = "SyntaxError"
    /\ pc' = "failed"
    /\ UNCHANGED <<fixed, stdout, modules, idx, cur_tree, all_methods_with_example,
                   all_methods_without_example>>

\* lines 45-47: the file is read and parsed
OpenAndParse ==
    /\ pc = "loop"
    /\ idx <= Len(modules)
    /\ entry_of(modules[idx]).is_file
    /\ \E source \in Sources :
          /\ source.parses
          /\ cur_tree' = source
    /\ reads' = Append(reads, modules[idx])
    /\ pc' = "classify"
    /\ UNCHANGED <<fixed, stdout, modules, idx, all_methods_with_example,
                   all_methods_without_example, error>>

\* lines 49-138: the module is classified, recorded and its row printed
ClassifyAndPrintRow ==
    /\ pc = "classify"
    /\ LET file_name == modules[idx]
           result == classify(cur_tree.body)
       IN  /\ all_methods_without_example' =
                 dict_set(all_methods_without_example, file_name, result.without_example)
           /\ all_methods_with_example' =
                 dict_set(all_methods_with_example, file_name, result.with_example)
           /\ stdout' = Append(stdout, module_row(file_name, result.with_example,
                                                  result.without_example))
    /\ idx' = idx + 1
    /\ pc' = "loop"
    /\ UNCHANGED <<fixed, modules, reads, cur_tree, error>>

\* lines 140-159, once the loop is over
PrintTotal ==
    /\ pc = "loop"
    /\ idx > Len(modules)
    /\ stdout' = stdout \o << Line("rule", <<>>, 0, 0, Fraction(0, 1)),
                              total_row(all_methods_with_example,
                                        all_methods_without_example) >>
    /\ pc' = "done"
    /\ UNCHANGED <<fixed, modules, idx, reads, cur_tree, all_methods_with_example,
                   all_methods_without_example, error>>

Next ==
    \/ PrintHeader
    \/ FindFilesReturns
    \/ FindFilesRaises
    \/ OpenFails
    \/ ParseFails
    \/ OpenAndParse
    \/ ClassifyAndPrintRow
    \/ PrintTotal

Spec == Init /\ [][Next]_vars

----------------------------------------------------------------------------
(* Vocabulary of the properties *)

Range(s) == {s[i] : i \in 1..Len(s)}

IsPrivate(name) == name # <<>> /\ name[1] = "_"

HasExample(decl) ==
    /\ decl.docstring.present
    /\ \E i \in 1..Len(decl.docstring.text) :
          /\ i + 6 <= Len(decl.docstring.text)
          /\ \A j \in 1..7 : decl.docstring.text[i + j - 1] = Example[j]

HasProperty(decl) ==
    \E i \in 1..Len(decl.decorator_list) :
        decl.decorator_list[i] = NameDecorator("property")

HasSetter(decl) ==
    \E i \in 1..Len(decl.decorator_list) :
        decl.decorator_list[i] = AttributeDecorator("setter")

\* the declarations of the module under classification: its top-level
\* functions and classes, and the functions declared directly in its classes
TopLevelDecls(type) == { i \in 1..Len(tree) : tree[i].type = type }
MethodDecls ==
    { <<i, j>> \in (1..Len(tree)) \X (1..MaxNodes + 1) :
        /\ tree[i].type = "ClassDef"
        /\ j <= Len(tree[i].body)
        /\ tree[i].body[j].type = "FunctionDef" }
MethodAt(p) == tree[p[1]].body[p[2]]

DeclsNamed(name) ==
    Cardinality({ i \in TopLevelDecls("FunctionDef") : tree[i].name = name })
    + Cardinality({ i \in TopLevelDecls("ClassDef") : tree[i].name = name })
    + Cardinality({ p \in MethodDecls : MethodAt(p).name = name })

Covered == Range(classified.result.with_example)
Missing == Range(classified.result.without_example)
Log == classified.result.log
LogOf(kind) == { i \in 1..Len(Log) : Log[i].kind = kind }

----------------------------------------------------------------------------
(* Properties of the classification, under SpecClassify *)

C2_PrivateNeverListed ==
    classified.done =>
        \A name \in Covered \cup Missing : ~ IsPrivate(name)

\* C2, amended: a private top-level function, and a private method with
\* neither a bare property nor a .setter decorator, appends nothing; a private
\* name is listed only for a class of that name or for a method of that name
\* that carries a bare property or a .setter decorator.
C2_PrivateListedOnlyForClassOrProperty ==
    classified.done =>
        /\ \A i \in 1..Len(Log) :
              /\ IsPrivate(Log[i].decl.name)
              /\ \/ Log[i].kind = "function"
                 \/ /\ Log[i].kind = "method"
                    /\ ~ HasProperty(Log[i].decl)
                    /\ ~ HasSetter(Log[i].decl)
              => Log[i].missing = <<>> /\ Log[i].covered = <<>>
        /\ \A name \in Covered \cup Missing :
              IsPrivate(name) =>
                  \/ \E i \in TopLevelDecls("ClassDef") : tree[i].name = name
                  \/ \E p \in MethodDecls :
                        /\ MethodAt(p).name = name
                        /\ HasProperty(MethodAt(p)) \/ HasSetter(MethodAt(p))

\* a documented private function, or private method with another decorator,
\* that is listed nowhere
C2_Witness ==
    /\ classified.done
    /\ \E i \in 1..Len(Log) :
          /\ IsPrivate(Log[i].decl.name)
          /\ HasExample(Log[i].decl)
          /\ \/ Log[i].kind = "function"
             \/ /\ Log[i].kind = "method"
                /\ Log[i].decl.decorator_list = <<NameDecorator("staticmethod")>>
    /\ Covered \cup Missing = { <<"x">> }

\* C3: whatever its decorators, a method contributes at most one entry in
\* total to the covered and missing method lists, so the module's total counts
\* it at most once.
C3_AtMostOneEntryPerMethod ==
    classified.done =>
        /\ \A i \in LogOf("method") : Len(Log[i].missing) + Len(Log[i].covered) <= 1
        /\ Len(classified.result.missing_methods)
              + Len(classified.result.covered_methods) <= Cardinality(MethodDecls)

\* C4: a method that carries a '<name>.setter' decorator is classified
\* covered and is not classified missing, whatever its docstring, its name and
\* its other decorators.
C4_SetterAlwaysCovered ==
    classified.done =>
        \A i \in LogOf("method") :
            HasSetter(Log[i].decl) =>
                /\ Log[i].covered # <<>>
                /\ Log[i].missing = <<>>

\* C5: a non-private top-level function, a top-level class, a method with a
\* bare property decorator and a non-private undecorated method is classified
\* covered if and only if its docstring contains 'Example', and missing
\* otherwise.
C5_DocstringRuleUniform ==
    classified.done =>
        \A i \in 1..Len(Log) :
            \/ Log[i].kind = "function" /\ ~ IsPrivate(Log[i].decl.name)
            \/ Log[i].kind = "class"
            \/ Log[i].kind = "method" /\ HasProperty(Log[i].decl)
            \/ /\ Log[i].kind = "method"
               /\ ~ IsPrivate(Log[i].decl.name)
               /\ Log[i].decl.decorator_list = <<>>
            => IF HasExample(Log[i].decl)
               THEN Log[i].covered # <<>> /\ Log[i].missing = <<>>
               ELSE Log[i].missing # <<>> /\ Log[i].covered = <<>>

----------------------------------------------------------------------------
(* Properties of find_files, under SpecFind *)

Called(rec) == find_result[rec] # NotCalled
HasReturned(rec) == Called(rec) /\ ~ find_result[rec].raised

\* the files the finder is to return: the files whose name ends with the
\* source extension, anywhere under the directory when recursive and directly
\* inside it otherwise, but for the files named exactly __init__.py
Qualifying(rec) ==
    { path_of(e) : e \in
        { f \in Range(fs) :
            /\ f.is_file
            /\ Len(f.name) >= 3
            /\ \A k \in 1..3 : f.name[Len(f.name) - 3 + k] = dot_py[k]
            /\ f.name # init_py
            /\ rec \/ f.parent = <<>> } }

Ascending(list) ==
    \A i \in 1..Len(list) : \A j \in 1..Len(list) :
        i < j => StrLess(list[i], list[j])

NoSubdirectories == \A i \in 1..Len(fs) : fs[i].is_file

\* C6: when find_files returns, the result is sorted ascending by full path
\* and is exactly the set of source files (recursively, or directly inside
\* the directory) minus the files named exactly __init__.py: my__init__.py is
\* returned, no non-file entry is returned, and without subdirectories the
\* recursive and the non-recursive results name the same files.
C6_ReturnsExactlyTheSourceFiles ==
    /\ \A rec \in BOOLEAN :
          HasReturned(rec) =>
              /\ Ascending(find_result[rec].value)
              /\ Range(find_result[rec].value) = Qualifying(rec)
    /\ HasReturned(TRUE) /\ HasReturned(FALSE) /\ NoSubdirectories =>
          Range(find_result[TRUE].value) = Range(find_result[FALSE].value)

\* C7: find_files fails with the not-found error exactly when the directory
\* has no entries or no file is left by the extension filter and the exclusion
\* of the package initializer; otherwise it returns a non-empty list.
C7_FailsExactlyWhenNothingQualifies ==
    \A rec \in BOOLEAN :
        Called(rec) =>
            /\ find_result[rec].raised <=>
                  \/ fs = <<>>
                  \/ Qualifying(rec) = {}
            /\ find_result[rec].raised =>
                  /\ find_result[rec].error = "FileNotFoundError"
                  /\ find_result[rec].value = <<>>
            /\ ~ find_result[rec].raised => find_result[rec].value # <<>>

----------------------------------------------------------------------------
(* Properties of the run of create_report, under Spec *)

Rows == SelectSeq(stdout, LAMBDA l : l.line = "row")
TotalLines == SelectSeq(stdout, LAMBDA l : l.line = "total")

RECURSIVE Sum(_, _)
Sum(lines, field) ==
    IF lines = <<>> THEN 0
    ELSE (IF field = "total" THEN Head(lines).total ELSE Head(lines).missing)
         + Sum(Tail(lines), field)

PercentageOf(l) ==
    IF l.total = 0
    THEN l.percentage.num = 100 * l.percentage.den
    ELSE l.percentage.num * l.total = 100 * (l.total - l.missing) * l.percentage.den

\* C8: the Total row's count is the sum of the rows' totals and its missed
\* count the sum of the rows' missed counts, each row's total is
\* |covered| + |missing| of its module, and every percentage is 100 when its
\* total is 0 and otherwise satisfies percentage * total = 100 * (total -
\* missing).
C8_TotalsAreSums ==
    /\ \A i \in 1..Len(Rows) :
          /\ Rows[i].total = Len(all_methods_with_example[modules[i]])
                             + Len(all_methods_without_example[modules[i]])
          /\ Rows[i].missing = Len(all_methods_without_example[modules[i]])
          /\ Rows[i].percentage.den > 0
          /\ PercentageOf(Rows[i])
    /\ \A i \in 1..Len(TotalLines) :
          /\ TotalLines[i].total = Sum(Rows, "total")
          /\ TotalLines[i].missing = Sum(Rows, "missing")
          /\ TotalLines[i].percentage.den > 0
          /\ PercentageOf(TotalLines[i])
    /\ pc = "done" => Len(TotalLines) = 1

\* a finished report with a module without declarations and a module of
\* three declarations, one of them missing
C8_Witness ==
    /\ pc = "done"
    /\ Len(Rows) >= 2
    /\ \E i \in 1..Len(Rows) : Rows[i].total = 0
    /\ \E i \in 1..Len(Rows) :
          /\ Rows[i].total = 3
          /\ Rows[i].missing = 1
          /\ Rows[i].percentage = [num |-> 200, den |-> 3]
    /\ TotalLines[1].total = 3
    /\ TotalLines[1].missing = 1

NotFound == pc = "failed" /\ error = "FileNotFoundError"

\* C9, as stated: when the run fails because the directory is empty or holds
\* no qualifying source file, nothing has been written to standard output.
C9_NothingWrittenBeforeNotFound ==
    NotFound => stdout = <<>>

\* C9, amended: when the run fails because the directory is empty or holds no
\* qualifying source file, the header row and the separator rule, and nothing
\* else, have been written: no module row and no Total row.
C9_OnlyHeaderWrittenBeforeNotFound ==
    NotFound =>
        /\ Len(stdout) = 2
        /\ stdout[1].line = "header"
        /\ stdout[2].line = "rule"

\* a run over a directory that has entries but no module
C9_Witness ==
    /\ NotFound
    /\ fs # <<>>
    /\ Len(stdout) = 2

\* the report so far: the files read are a prefix of the list, in ascending
\* order, at most one of them without its row yet; the rows follow the header
\* and the rule in the order of the list; the Total row is last, after the row
\* of every module; a run ended by an error at position idx has the rows of
\* the modules before idx only and no Total row
C10_State ==
    /\ Ascending(modules)
    /\ Len(reads) <= Len(modules)
    /\ reads = SubSeq(modules, 1, Len(reads))
    /\ Len(Rows) <= Len(reads)
    /\ Len(reads) <= Len(Rows) + 1
    /\ \A i \in 1..Len(Rows) : Rows[i].name = module_name(modules[i])
    /\ \A i \in 1..Len(stdout) :
          /\ stdout[i].line = "row" =>
                /\ i >= 3
                /\ \A j \in 3..i : stdout[j].line = "row"
          /\ stdout[i].line = "total" =>
                /\ i = Len(stdout)
                /\ pc = "done"
                /\ Len(Rows) = Len(modules)
    /\ pc = "done" => Len(TotalLines) = 1 /\ Len(Rows) = Len(modules)
    /\ pc = "failed" /\ error # "FileNotFoundError" =>
          /\ Len(reads) = idx
          /\ Len(Rows) = idx - 1
          /\ TotalLines = <<>>

\* C10: modules are processed one at a time in the order find_files returned,
\* which is ascending; each gives one row; the Total row comes after every
\* module's row; when the module at position k cannot be parsed the run is
\* over: no row for it or for a later module, no later module is read, and no
\* Total row, ever (nothing happens after the failure).
C10_InOrderAndAbortOnParseError ==
    /\ [] C10_State
    /\ [][pc # "failed"]_vars

\* the second of three modules does not parse: one row, two files read
C10_Witness ==
    /\ pc = "failed"
    /\ error = "SyntaxError"
    /\ Len(modules) = 3
    /\ idx = 2
    /\ Len(Rows) = 1

====
